---- MODULE Spec2Model ----
(***************************************************************************)
(* The sweep phase of the non-moving collector (rts/sm/NonMovingSweep.c).  *)
(*                                                                         *)
(* Segments are the numbers 1..NumSegs (their addresses), NULL is 0.  The  *)
(* heap registry nonmoving_heap is the variables free, sweep_list, active  *)
(* and filled (the two list heads of every allocator); the segment fields  *)
(* are functions over the segments.  One call of nonmoving_sweep is run    *)
(* step by step, pc being the position inside it.                          *)
(*                                                                         *)
(* The runtime modelled is the one built with DEBUG: ASSERT makes its      *)
(* check and fails fatally, and IF_DEBUG(sanity, ...) runs its statement   *)
(* when the sanity flag is on.  Every state has debug = TRUE.              *)
(***************************************************************************)
EXTENDS Integers, Sequences, FiniteSets, TLC

\* ---------------------------------------------------------------- bounds
\* number of segments of the heap
NumSegs == 2
\* blocks per segment (nonmoving_segment_block_count of every segment)
MaxBlocks == 2

\* ------------------------------------------------------ program constants
\* number of size classes (12 in the runtime; two are enough to tell a
\* segment's own class from another one)
NONMOVING_ALLOCA_CNT == 2
\* block_size (log2) of the first size class
NONMOVING_ALLOCA0 == 3

NULL == 0
Segs == 1..NumSegs
Classes == 0..(NONMOVING_ALLOCA_CNT - 1)
BlockSizes == {NONMOVING_ALLOCA0 + c : c \in Classes}
BlockIdx == 0..(MaxBlocks - 1)
Bitmaps == [BlockIdx -> {0, 1}]

VARIABLES
    free,            \* nonmoving_heap.free
    sweep_list,      \* nonmoving_heap.sweep_list
    active,          \* nonmoving_heap.allocators[c]->active
    filled,          \* nonmoving_heap.allocators[c]->filled
    link,            \* seg->link
    block_size,      \* seg->block_size
    bitmap,          \* seg->bitmap[i], 1 = marked
    next_free,       \* seg->next_free
    next_free_snap,  \* seg->next_free_snap
    payload,         \* payload[s][i] = 1 when block i holds a nonzero byte
    sanity,          \* RtsFlags.DebugFlags.sanity: the sanity debug flag is on
    debug,           \* the runtime is built with DEBUG defined (always so here)
    pc,              \* position inside nonmoving_sweep
    alloc_idx,       \* prepare_sweep: loop variable
    filled_head,     \* prepare_sweep: local filled_head
    seg,             \* nonmoving_sweep: local seg
    ret,             \* nonmoving_sweep: local ret
    failure,         \* which fatal check failed ("none" while running)
    old,             \* the heap as it was when nonmoving_sweep was called
    swept,           \* the segments classified so far, in order, with results
    runs             \* how many times nonmoving_sweep has been called

vars == <<free, sweep_list, active, filled, link, block_size, bitmap,
          next_free, next_free_snap, payload, sanity, debug, pc,
          alloc_idx, filled_head, seg, ret, failure, old, swept, runs>>

\* ------------------------------------------------------------ list helpers
\* the segments reachable from head h through the link fields lnk, in order
RECURSIVE Chain(_, _, _)
Chain(h, lnk, fuel) ==
    IF h = NULL \/ fuel = 0 THEN <<>>
    ELSE <<h>> \o Chain(lnk[h], lnk, fuel - 1)

ListOf(h, lnk) == Chain(h, lnk, NumSegs + 1)

Members(h, lnk) == {ListOf(h, lnk)[i] : i \in 1..Len(ListOf(h, lnk))}

\* mutant: the list is not walked to its end
LastOf_head(h, lnk, fuel) == h

\* the last segment of the non-empty list starting at h
RECURSIVE LastOf(_, _, _)
LastOf(h, lnk, fuel) ==
    IF lnk[h] = NULL \/ fuel = 0 THEN h ELSE LastOf(lnk[h], lnk, fuel - 1)

\* nonmoving_segment_block_count(seg)
nonmoving_segment_block_count(s) == MaxBlocks

\* the allocator index a segment's block_size selects
AllocOf(s) == block_size[s] - NONMOVING_ALLOCA0

\* mutant: the consistency check is not made
ASSERT_holds_noop(p) == TRUE

\* ASSERT(p): a failed consistency check is fatal
ASSERT_holds(p) == p

\* IF_DEBUG(flag, stmt): stmt runs in a DEBUG build whose debug flag is on
IF_DEBUG(flag) == debug /\ flag

\* ------------------------------------------------------------ enum sweep_result
SEGMENT_FREE == "SEGMENT_FREE"
SEGMENT_PARTIAL == "SEGMENT_PARTIAL"
SEGMENT_FILLED == "SEGMENT_FILLED"

\* ------------------------------------------------------------ push_*_segment
\* mutant: the push forgets the list it pushes onto
push_free_segment_forgets(s) ==
    [link |-> [link EXCEPT ![s] = NULL], free |-> s]

push_free_segment(s) ==
    [link |-> [link EXCEPT ![s] = free], free |-> s]

\* mutant: the segment is linked but the list head is not updated
push_active_segment_nohead(s) ==
    [link |-> [link EXCEPT ![s] = active[AllocOf(s)]], active |-> active]

push_active_segment(s) ==
    [link |-> [link EXCEPT ![s] = active[AllocOf(s)]],
     active |-> [active EXCEPT ![AllocOf(s)] = s]]

\* mutant: the segment is inserted behind the head of a non-empty list
push_filled_segment_second(s) ==
    IF filled[AllocOf(s)] = NULL
    THEN [link |-> [link EXCEPT ![s] = NULL],
          filled |-> [filled EXCEPT ![AllocOf(s)] = s],
          active |-> active]
    ELSE [link |-> [link EXCEPT ![s] = link[filled[AllocOf(s)]],
                                 ![filled[AllocOf(s)]] = s],
          filled |-> filled,
          active |-> active]

\* mutant: the segment is pushed on the active list of its allocator
push_filled_segment_active(s) ==
    [link |-> [link EXCEPT ![s] = active[AllocOf(s)]],
     filled |-> filled,
     active |-> [active EXCEPT ![AllocOf(s)] = s]]

push_filled_segment(s) ==
    [link |-> [link EXCEPT ![s] = filled[AllocOf(s)]],
     filled |-> [filled EXCEPT ![AllocOf(s)] = s],
     active |-> active]

\* ------------------------------------------------------------ nonmoving_sweep_segment
\* mutant: the early exit is taken when a free or a live block was seen
RECURSIVE sweep_segment_loop_eager(_, _, _, _, _, _, _)
sweep_segment_loop_eager(bm, n, i, found_free, found_live, nf, ns) ==
    IF i >= n
    THEN IF found_live
         THEN [ret |-> SEGMENT_FILLED, next_free |-> nf, next_free_snap |-> ns,
               ok |-> TRUE]
         ELSE [ret |-> SEGMENT_FREE, next_free |-> nf, next_free_snap |-> ns,
               ok |-> ASSERT_holds(nf = 0) /\ ASSERT_holds(ns = 0)]
    ELSE LET live == found_live \/ bm[i] # 0
             rec == bm[i] = 0 /\ ~found_free
             ff == found_free \/ rec
             nf2 == IF rec THEN i ELSE nf
             ns2 == IF rec THEN i ELSE ns
         IN IF ff \/ live
            THEN [ret |-> SEGMENT_PARTIAL, next_free |-> nf2,
                  next_free_snap |-> ns2, ok |-> TRUE]
            ELSE sweep_segment_loop_eager(bm, n, i + 1, ff, live, nf2, ns2)

\* mutant: the first free block is not stored in next_free_snap
RECURSIVE sweep_segment_loop_nosnap(_, _, _, _, _, _, _)
sweep_segment_loop_nosnap(bm, n, i, found_free, found_live, nf, ns) ==
    IF i >= n
    THEN IF found_live
         THEN [ret |-> SEGMENT_FILLED, next_free |-> nf, next_free_snap |-> ns,
               ok |-> TRUE]
         ELSE [ret |-> SEGMENT_FREE, next_free |-> nf, next_free_snap |-> ns,
               ok |-> ASSERT_holds(nf = 0) /\ ASSERT_holds(ns = 0)]
    ELSE LET live == found_live \/ bm[i] # 0
             rec == bm[i] = 0 /\ ~found_free
             ff == found_free \/ rec
             nf2 == IF rec THEN i ELSE nf
         IN IF ff /\ live
            THEN [ret |-> SEGMENT_PARTIAL, next_free |-> nf2,
                  next_free_snap |-> ns, ok |-> TRUE]
            ELSE sweep_segment_loop_nosnap(bm, n, i + 1, ff, live, nf2, ns)

\* mutant: the index stored is the one after the first free block
RECURSIVE sweep_segment_loop_offbyone(_, _, _, _, _, _, _)
sweep_segment_loop_offbyone(bm, n, i, found_free, found_live, nf, ns) ==
    IF i >= n
    THEN IF found_live
         THEN [ret |-> SEGMENT_FILLED, next_free |-> nf, next_free_snap |-> ns,
               ok |-> TRUE]
         ELSE [ret |-> SEGMENT_FREE, next_free |-> nf, next_free_snap |-> ns,
               ok |-> ASSERT_holds(nf = 0) /\ ASSERT_holds(ns = 0)]
    ELSE LET live == found_live \/ bm[i] # 0
             rec == bm[i] = 0 /\ ~found_free
             ff == found_free \/ rec
             nf2 == IF rec THEN (i + 1) % n ELSE nf
             ns2 == IF rec THEN (i + 1) % n ELSE ns
         IN IF ff /\ live
            THEN [ret |-> SEGMENT_PARTIAL, next_free |-> nf2,
                  next_free_snap |-> ns2, ok |-> TRUE]
            ELSE sweep_segment_loop_offbyone(bm, n, i + 1, ff, live, nf2, ns2)

\* mutant: a free block is recorded only once a live block has been seen, so
\* a segment without live blocks keeps its cursors
RECURSIVE sweep_segment_loop_nowrite(_, _, _, _, _, _, _)
sweep_segment_loop_nowrite(bm, n, i, found_free, found_live, nf, ns) ==
    IF i >= n
    THEN IF found_live
         THEN [ret |-> SEGMENT_FILLED, next_free |-> nf, next_free_snap |-> ns,
               ok |-> TRUE]
         ELSE [ret |-> SEGMENT_FREE, next_free |-> nf, next_free_snap |-> ns,
               ok |-> ASSERT_holds(nf = 0) /\ ASSERT_holds(ns = 0)]
    ELSE LET live == found_live \/ bm[i] # 0
             rec == bm[i] = 0 /\ ~found_free
             ff == found_free \/ rec
             nf2 == IF rec /\ found_live THEN i ELSE nf
             ns2 == IF rec /\ found_live THEN i ELSE ns
         IN IF ff /\ live
            THEN [ret |-> SEGMENT_PARTIAL, next_free |-> nf2,
                  next_free_snap |-> ns2, ok |-> TRUE]
            ELSE sweep_segment_loop_nowrite(bm, n, i + 1, ff, live, nf2, ns2)

\* mutant: the first free block is not stored in next_free
RECURSIVE sweep_segment_loop_nonext(_, _, _, _, _, _, _)
sweep_segment_loop_nonext(bm, n, i, found_free, found_live, nf, ns) ==
    IF i >= n
    THEN IF found_live
         THEN [ret |-> SEGMENT_FILLED, next_free |-> nf, next_free_snap |-> ns,
               ok |-> TRUE]
         ELSE [ret |-> SEGMENT_FREE, next_free |-> nf, next_free_snap |-> ns,
               ok |-> ASSERT_holds(nf = 0) /\ ASSERT_holds(ns = 0)]
    ELSE LET live == found_live \/ bm[i] # 0
             rec == bm[i] = 0 /\ ~found_free
             ff == found_free \/ rec
             ns2 == IF rec THEN i ELSE ns
         IN IF ff /\ live
            THEN [ret |-> SEGMENT_PARTIAL, next_free |-> nf,
                  next_free_snap |-> ns2, ok |-> TRUE]
            ELSE sweep_segment_loop_nonext(bm, n, i + 1, ff, live, nf, ns2)

\* the for loop from index i on; nf and ns are the segment's cursors so far
RECURSIVE sweep_segment_loop(_, _, _, _, _, _, _)
sweep_segment_loop(bm, n, i, found_free, found_live, nf, ns) ==
    IF i >= n
    THEN IF found_live
         THEN [ret |-> SEGMENT_FILLED, next_free |-> nf, next_free_snap |-> ns,
               ok |-> TRUE]
         ELSE [ret |-> SEGMENT_FREE, next_free |-> nf, next_free_snap |-> ns,
               ok |-> ASSERT_holds(nf = 0) /\ ASSERT_holds(ns = 0)]
    ELSE LET live == found_live \/ bm[i] # 0
             rec == bm[i] = 0 /\ ~found_free
             ff == found_free \/ rec
             nf2 == IF rec THEN i ELSE nf
             ns2 == IF rec THEN i ELSE ns
         IN IF ff /\ live
            THEN [ret |-> SEGMENT_PARTIAL, next_free |-> nf2,
                  next_free_snap |-> ns2, ok |-> TRUE]
            ELSE sweep_segment_loop(bm, n, i + 1, ff, live, nf2, ns2)

\* mutant: the scan keeps the free index in locals and checks those; the
\* segment's cursors are not written
nonmoving_sweep_segment_locals(s) ==
    LET r == sweep_segment_loop(bitmap[s], nonmoving_segment_block_count(s), 0,
                                FALSE, FALSE, 0, 0)
    IN [ret |-> r.ret, next_free |-> next_free[s],
        next_free_snap |-> next_free_snap[s], ok |-> r.ok]

\* mutant: the scan starts by resetting the segment's cursors
nonmoving_sweep_segment_resets(s) ==
    sweep_segment_loop(bitmap[s], nonmoving_segment_block_count(s), 0,
                       FALSE, FALSE, 0, 0)

nonmoving_sweep_segment(s) ==
    sweep_segment_loop(bitmap[s], nonmoving_segment_block_count(s), 0,
                       FALSE, FALSE, next_free[s], next_free_snap[s])

\* ------------------------------------------------------------ DEBUG scrubbing
\* clear_segment: zero everything from the bitmap to the end of the segment
clear_segment(s) ==
    [bitmap |-> [bitmap EXCEPT ![s] = [i \in BlockIdx |-> 0]],
     payload |-> [payload EXCEPT ![s] = [i \in BlockIdx |-> 0]]]

\* mutant: the blocks whose mark bit is set are zeroed
clear_segment_free_blocks_live(s) ==
    [bitmap |-> bitmap,
     payload |-> [payload EXCEPT ![s] =
                    [i \in BlockIdx |-> IF bitmap[s][i] # 0 THEN 0 ELSE @[i]]]]

\* clear_segment_free_blocks: zero the blocks whose mark bit is unset
clear_segment_free_blocks(s) ==
    [bitmap |-> bitmap,
     payload |-> [payload EXCEPT ![s] =
                    [i \in BlockIdx |-> IF bitmap[s][i] = 0 THEN 0 ELSE @[i]]]]

\* ------------------------------------------------------------ initial heaps
\* The lists of the heap, numbered: the free list, the active lists, the
\* filled lists, the sweep list.
FreeList == 0
ActiveList(c) == 1 + c
FilledList(c) == 1 + NONMOVING_ALLOCA_CNT + c
SweepList == 1 + 2 * NONMOVING_ALLOCA_CNT
ListIds == 0..SweepList

\* cursor values (next_free, next_free_snap) a filled segment may hold at
\* entry: both still 0, or next_free advanced to the last block with an
\* older, nonzero snapshot
StaleCursors == {<<0, 0>>, <<MaxBlocks - 1, 1>>}
\* an active segment's next_free is past its live first block; its snapshot
\* is next_free or older
ActiveCursors == {<<1, 0>>, <<1, 1>>}

AllSet == [i \in BlockIdx |-> 1]
AllUnset == [i \in BlockIdx |-> 0]
FirstLive == [i \in BlockIdx |-> IF i = 0 THEN 1 ELSE 0]

HeadOf(loc, l) ==
    IF \E s \in Segs : loc[s] = l
    THEN CHOOSE s \in Segs : loc[s] = l /\ \A t \in Segs : loc[t] = l => s <= t
    ELSE NULL

\* Segments are interchangeable, so only the heaps in which the lists hold
\* the segments in ascending order (free, active, filled, sweep; head first)
\* are enumerated: every other heap is a renaming of one of these.
Init ==
    \E loc \in [Segs -> ListIds] :
      /\ \A s, t \in Segs : s < t => loc[s] <= loc[t]
      /\ \E bs \in [Segs -> BlockSizes] :
           /\ \A s \in Segs : \A c \in Classes :
                loc[s] \in {ActiveList(c), FilledList(c)}
                    => bs[s] = NONMOVING_ALLOCA0 + c
           /\ \E bm \in [Segs -> Bitmaps] :
                /\ \A s \in Segs :
                     /\ loc[s] = FreeList => bm[s] = AllUnset
                     /\ loc[s] = SweepList => bm[s] \in {AllSet, FirstLive}
                     /\ (\E c \in Classes : loc[s] = ActiveList(c))
                            => bm[s] = FirstLive
                /\ \E cur \in [Segs -> StaleCursors \cup ActiveCursors] :
                     /\ \A s \in Segs :
                          /\ (\E c \in Classes : loc[s] = FilledList(c))
                                 => cur[s] \in StaleCursors
                          /\ loc[s] \in {FreeList, SweepList} => cur[s] = <<0, 0>>
                          /\ (\E c \in Classes : loc[s] = ActiveList(c))
                                 => cur[s] \in ActiveCursors
                     /\ \E sn \in BOOLEAN :
                          /\ free = HeadOf(loc, FreeList)
                          /\ sweep_list = HeadOf(loc, SweepList)
                          /\ active = [c \in Classes |-> HeadOf(loc, ActiveList(c))]
                          /\ filled = [c \in Classes |-> HeadOf(loc, FilledList(c))]
                          /\ link = [s \in Segs |->
                                       IF s < NumSegs /\ loc[s + 1] = loc[s]
                                       THEN s + 1 ELSE NULL]
                          /\ block_size = bs
                          /\ bitmap = bm
                          /\ next_free = [s \in Segs |-> cur[s][1]]
                          /\ next_free_snap = [s \in Segs |-> cur[s][2]]
                          /\ payload = [s \in Segs |-> [i \in BlockIdx |-> 1]]
                          /\ sanity = sn
                          /\ debug = TRUE
    /\ pc = "idle"
    /\ alloc_idx = 0
    /\ filled_head = NULL
    /\ seg = NULL
    /\ ret = "none"
    /\ failure = "none"
    /\ old = [free |-> free, sweep_list |-> sweep_list, active |-> active,
              filled |-> filled, link |-> link, bitmap |-> bitmap,
              next_free |-> next_free, next_free_snap |-> next_free_snap,
              payload |-> payload]
    /\ swept = <<>>
    /\ runs = 1

\* ------------------------------------------------------------ nonmoving_sweep
heap_vars == <<free, sweep_list, active, filled, link, bitmap, next_free,
               next_free_snap, payload>>

\* mutant: the entry check of prepare_sweep is inverted
prepare_sweep_enter_inverted ==
    /\ pc = "idle"
    /\ IF ASSERT_holds(sweep_list # NULL)
       THEN pc' = "prepare" /\ failure' = failure
       ELSE pc' = "fatal" /\ failure' = "sweep_list"
    /\ alloc_idx' = 0
    /\ UNCHANGED <<heap_vars, block_size, sanity, debug, filled_head, seg, ret,
                   old, swept, runs>>

\* mutant: the for loop of prepare_sweep starts at the second allocator
prepare_sweep_enter_skipfirst ==
    /\ pc = "idle"
    /\ IF ASSERT_holds(sweep_list = NULL)
       THEN pc' = "prepare" /\ failure' = failure
       ELSE pc' = "fatal" /\ failure' = "sweep_list"
    /\ alloc_idx' = 1
    /\ UNCHANGED <<heap_vars, block_size, sanity, debug, filled_head, seg, ret,
                   old, swept, runs>>

\* nonmoving_sweep is called: prepare_sweep's entry check
prepare_sweep_enter ==
    /\ pc = "idle"
    /\ IF ASSERT_holds(sweep_list = NULL)
       THEN pc' = "prepare" /\ failure' = failure
       ELSE pc' = "fatal" /\ failure' = "sweep_list"
    /\ alloc_idx' = 0
    /\ UNCHANGED <<heap_vars, block_size, sanity, debug, filled_head, seg, ret,
                   old, swept, runs>>

\* mutant: the allocator's filled list is not emptied when it is taken
prepare_sweep_take_keeps ==
    /\ pc = "prepare"
    /\ alloc_idx < NONMOVING_ALLOCA_CNT
    /\ filled_head' = filled[alloc_idx]
    /\ filled' = filled
    /\ IF filled[alloc_idx] = NULL
       THEN alloc_idx' = alloc_idx + 1 /\ pc' = pc
       ELSE alloc_idx' = alloc_idx /\ pc' = "link"
    /\ UNCHANGED <<free, sweep_list, active, link, block_size, bitmap,
                   next_free, next_free_snap, payload, sanity, debug, seg, ret,
                   failure, old, swept, runs>>

\* prepare_sweep, the for loop: take the allocator's filled list
prepare_sweep_take ==
    /\ pc = "prepare"
    /\ alloc_idx < NONMOVING_ALLOCA_CNT
    /\ filled_head' = filled[alloc_idx]
    /\ filled' = [filled EXCEPT ![alloc_idx] = NULL]
    /\ IF filled[alloc_idx] = NULL
       THEN alloc_idx' = alloc_idx + 1 /\ pc' = pc
       ELSE alloc_idx' = alloc_idx /\ pc' = "link"
    /\ UNCHANGED <<free, sweep_list, active, link, block_size, bitmap,
                   next_free, next_free_snap, payload, sanity, debug, seg, ret,
                   failure, old, swept, runs>>

\* prepare_sweep, the for loop: link the taken list in front of sweep_list
prepare_sweep_link ==
    /\ pc = "link"
    /\ link' = [link EXCEPT ![LastOf(filled_head, link, NumSegs)] = sweep_list]
    /\ sweep_list' = filled_head
    /\ alloc_idx' = alloc_idx + 1
    /\ pc' = "prepare"
    /\ UNCHANGED <<free, active, filled, block_size, bitmap, next_free,
                   next_free_snap, payload, sanity, debug, filled_head, seg, ret,
                   failure, old, swept, runs>>

\* mutant: the loop stops at the last segment of the sweep list
nonmoving_sweep_pop_stopsearly ==
    /\ \/ pc = "prepare" /\ alloc_idx = NONMOVING_ALLOCA_CNT
       \/ pc = "loop"
    /\ IF sweep_list = NULL \/ link[sweep_list] = NULL
       THEN pc' = "done" /\ UNCHANGED <<seg, sweep_list>>
       ELSE /\ seg' = sweep_list
            /\ sweep_list' = link[sweep_list]
            /\ pc' = "classify"
    /\ UNCHANGED <<free, active, filled, link, block_size, bitmap, next_free,
                   next_free_snap, payload, sanity, debug, alloc_idx, filled_head,
                   ret, failure, old, swept, runs>>

\* mutant: when the sweep list is empty the filled lists are staged again
nonmoving_sweep_pop_restages ==
    /\ \/ pc = "prepare" /\ alloc_idx = NONMOVING_ALLOCA_CNT
       \/ pc = "loop"
    /\ IF sweep_list = NULL
       THEN /\ IF \E c \in Classes : filled[c] # NULL
               THEN pc' = "prepare" /\ alloc_idx' = 0
               ELSE pc' = "done" /\ alloc_idx' = alloc_idx
            /\ UNCHANGED <<seg, sweep_list>>
       ELSE /\ seg' = sweep_list
            /\ sweep_list' = link[sweep_list]
            /\ pc' = "classify"
            /\ alloc_idx' = alloc_idx
    /\ UNCHANGED <<free, active, filled, link, block_size, bitmap, next_free,
                   next_free_snap, payload, sanity, debug, filled_head,
                   ret, failure, old, swept, runs>>

\* the while test of nonmoving_sweep and the pop of the next segment
nonmoving_sweep_pop ==
    /\ \/ pc = "prepare" /\ alloc_idx = NONMOVING_ALLOCA_CNT
       \/ pc = "loop"
    /\ IF sweep_list = NULL
       THEN pc' = "done" /\ UNCHANGED <<seg, sweep_list>>
       ELSE /\ seg' = sweep_list
            /\ sweep_list' = link[sweep_list]
            /\ pc' = "classify"
    /\ UNCHANGED <<free, active, filled, link, block_size, bitmap, next_free,
                   next_free_snap, payload, sanity, debug, alloc_idx, filled_head,
                   ret, failure, old, swept, runs>>

\* ret = nonmoving_sweep_segment(seg)
nonmoving_sweep_classify ==
    /\ pc = "classify"
    /\ LET r == nonmoving_sweep_segment(seg)
       IN /\ next_free' = [next_free EXCEPT ![seg] = r.next_free]
          /\ next_free_snap' = [next_free_snap EXCEPT ![seg] = r.next_free_snap]
          /\ IF r.ok
             THEN /\ ret' = r.ret
                  /\ pc' = "push"
                  /\ failure' = failure
                  /\ swept' = Append(swept, [seg |-> seg, ret |-> r.ret])
             ELSE /\ pc' = "fatal"
                  /\ failure' = "next_free"
                  /\ UNCHANGED <<ret, swept>>
    /\ UNCHANGED <<free, sweep_list, active, filled, link, block_size, bitmap,
                   payload, sanity, debug, alloc_idx, filled_head, seg, old, runs>>

\* mutant: the SEGMENT_FILLED case scrubs the segment like the SEGMENT_FREE
\* case does
nonmoving_sweep_push_scrubsfilled ==
    /\ pc = "push"
    /\ CASE ret = SEGMENT_FREE ->
              /\ link' = push_free_segment(seg).link
              /\ free' = push_free_segment(seg).free
              /\ IF IF_DEBUG(sanity)
                 THEN /\ bitmap' = clear_segment(seg).bitmap
                      /\ payload' = clear_segment(seg).payload
                 ELSE UNCHANGED <<bitmap, payload>>
              /\ pc' = "loop"
              /\ UNCHANGED <<active, filled, failure>>
         [] ret = SEGMENT_PARTIAL ->
              /\ link' = push_active_segment(seg).link
              /\ active' = push_active_segment(seg).active
              /\ IF IF_DEBUG(sanity)
                 THEN /\ bitmap' = clear_segment_free_blocks(seg).bitmap
                      /\ payload' = clear_segment_free_blocks(seg).payload
                 ELSE UNCHANGED <<bitmap, payload>>
              /\ pc' = "loop"
              /\ UNCHANGED <<free, filled, failure>>
         [] ret = SEGMENT_FILLED ->
              /\ link' = push_filled_segment(seg).link
              /\ filled' = push_filled_segment(seg).filled
              /\ active' = push_filled_segment(seg).active
              /\ IF IF_DEBUG(sanity)
                 THEN /\ bitmap' = clear_segment(seg).bitmap
                      /\ payload' = clear_segment(seg).payload
                 ELSE UNCHANGED <<bitmap, payload>>
              /\ pc' = "loop"
              /\ UNCHANGED <<free, failure>>
         [] OTHER ->
              /\ pc' = "fatal"
              /\ failure' = "weird sweep return"
              /\ UNCHANGED <<free, active, filled, link, bitmap, payload>>
    /\ UNCHANGED <<sweep_list, block_size, next_free, next_free_snap, sanity, debug,
                   alloc_idx, filled_head, seg, ret, old, swept, runs>>

\* switch (ret)
nonmoving_sweep_push ==
    /\ pc = "push"
    /\ CASE ret = SEGMENT_FREE ->
              /\ link' = push_free_segment(seg).link
              /\ free' = push_free_segment(seg).free
              /\ IF IF_DEBUG(sanity)
                 THEN /\ bitmap' = clear_segment(seg).bitmap
                      /\ payload' = clear_segment(seg).payload
                 ELSE UNCHANGED <<bitmap, payload>>
              /\ pc' = "loop"
              /\ UNCHANGED <<active, filled, failure>>
         [] ret = SEGMENT_PARTIAL ->
              /\ link' = push_active_segment(seg).link
              /\ active' = push_active_segment(seg).active
              /\ IF IF_DEBUG(sanity)
                 THEN /\ bitmap' = clear_segment_free_blocks(seg).bitmap
                      /\ payload' = clear_segment_free_blocks(seg).payload
                 ELSE UNCHANGED <<bitmap, payload>>
              /\ pc' = "loop"
              /\ UNCHANGED <<free, filled, failure>>
         [] ret = SEGMENT_FILLED ->
              /\ link' = push_filled_segment(seg).link
              /\ filled' = push_filled_segment(seg).filled
              /\ active' = push_filled_segment(seg).active
              /\ pc' = "loop"
              /\ UNCHANGED <<free, bitmap, payload, failure>>
         [] OTHER ->
              /\ pc' = "fatal"
              /\ failure' = "weird sweep return"
              /\ UNCHANGED <<free, active, filled, link, bitmap, payload>>
    /\ UNCHANGED <<sweep_list, block_size, next_free, next_free_snap, sanity, debug,
                   alloc_idx, filled_head, seg, ret, old, swept, runs>>

Next ==
    \/ prepare_sweep_enter
    \/ prepare_sweep_take
    \/ prepare_sweep_link
    \/ nonmoving_sweep_pop
    \/ nonmoving_sweep_classify
    \/ nonmoving_sweep_push

Spec == Init /\ [][Next]_vars

\* nonmoving_sweep is called a second time right after it has returned, the
\* bitmaps being as the first pass left them
nonmoving_sweep_again ==
    /\ pc = "done"
    /\ runs = 1
    /\ runs' = 2
    /\ pc' = "idle"
    /\ old' = [free |-> free, sweep_list |-> sweep_list, active |-> active,
               filled |-> filled, link |-> link, bitmap |-> bitmap,
               next_free |-> next_free, next_free_snap |-> next_free_snap,
               payload |-> payload]
    /\ swept' = <<>>
    /\ seg' = NULL
    /\ ret' = "none"
    /\ filled_head' = NULL
    /\ UNCHANGED <<heap_vars, block_size, sanity, debug, alloc_idx, failure>>

NextTwice ==
    \/ prepare_sweep_enter
    \/ prepare_sweep_take
    \/ prepare_sweep_link
    \/ nonmoving_sweep_pop
    \/ nonmoving_sweep_classify
    \/ nonmoving_sweep_push
    \/ nonmoving_sweep_again

SpecTwice == Init /\ [][NextTwice]_vars

\* ------------------------------------------------------------ properties
\* what the lists hold now and what they held when the pass was called
FreeNow == ListOf(free, link)
SweepNow == ListOf(sweep_list, link)
ActiveNow(c) == ListOf(active[c], link)
FilledNow(c) == ListOf(filled[c], link)
FreeOld == ListOf(old.free, old.link)
ActiveOld(c) == ListOf(old.active[c], old.link)
FilledOld(c) == ListOf(old.filled[c], old.link)
SweepOld == ListOf(old.sweep_list, old.link)

Elems(q) == {q[i] : i \in 1..Len(q)}
Occ(q, s) == Cardinality({i \in 1..Len(q) : q[i] = s})
IsSuffix(q, r) ==
    /\ Len(q) <= Len(r)
    /\ \A i \in 1..Len(q) : q[i] = r[Len(r) - Len(q) + i]

\* the segments on some filled list, on some active list, before the pass
PreFilled == UNION {Elems(FilledOld(c)) : c \in Classes}
PreActive == UNION {Elems(ActiveOld(c)) : c \in Classes}
PreFree == Elems(FreeOld)
\* the segments a sweep list that was not empty at the call held
PreSweep == Elems(SweepOld)
\* the size class whose filled list held s before the pass
DrainedFrom(s) == CHOOSE c \in Classes : s \in Elems(FilledOld(c))

\* the active and the filled lists of the classes c, c-1, ..., 0, one after
\* the other
RECURSIVE ClassListsUpTo(_)
ClassListsUpTo(c) ==
    IF c < 0 THEN <<>>
    ELSE ActiveNow(c) \o FilledNow(c) \o ClassListsUpTo(c - 1)

\* every list of the heap, one after the other
AllListed ==
    FreeNow \o SweepNow \o ClassListsUpTo(NONMOVING_ALLOCA_CNT - 1)

\* on how many lists (counting repetitions) segment s is now
TotalOcc(s) == Occ(AllListed, s)

NoBitSet(b) == \A i \in BlockIdx : b[i] = 0
EveryBitSet(b) == \A i \in BlockIdx : b[i] # 0
LowestUnset(b) ==
    CHOOSE i \in BlockIdx : b[i] = 0 /\ \A j \in BlockIdx : j < i => b[j] # 0

\* the entries of swept whose push has been done
Filed == IF pc = "push" THEN 1..(Len(swept) - 1) ELSE 1..Len(swept)

\* C1: after nonmoving_sweep returns, every segment that was on a filled
\* list before the call is on exactly one list, exactly once, and that list
\* is the free list or the active or the filled list of the allocator its
\* own block_size selects.
C1_PartitionComplete ==
    pc = "done" =>
        \A s \in PreFilled :
            /\ TotalOcc(s) = 1
            /\ \/ s \in Elems(FreeNow)
               \/ s \in Elems(ActiveNow(AllocOf(s)))
               \/ s \in Elems(FilledNow(AllocOf(s)))

C1_Witness ==
    /\ pc = "done"
    /\ \E s, t \in PreFilled :
          /\ s # t
          /\ s \in Elems(FreeNow)
          /\ t \in Elems(ActiveNow(AllocOf(t)))

\* C2: nonmoving_sweep_segment returns SEGMENT_FREE exactly when no mark bit
\* of the segment is set, SEGMENT_FILLED exactly when every mark bit is set,
\* and SEGMENT_PARTIAL exactly when some bit is set and some bit is unset.
C2_Classification ==
    \A k \in 1..Len(swept) :
        LET b == old.bitmap[swept[k].seg]
            r == swept[k].ret
        IN /\ (r = SEGMENT_FREE) <=> NoBitSet(b)
           /\ (r = SEGMENT_FILLED) <=> EveryBitSet(b)
           /\ (r = SEGMENT_PARTIAL) <=> (~NoBitSet(b) /\ ~EveryBitSet(b))

C2_Witness ==
    /\ pc = "push"
    /\ ret = SEGMENT_PARTIAL
    /\ bitmap[seg][0] = 0
    /\ old.next_free[seg] # 0

C4_FreeCursorsZero ==
    \A k \in 1..Len(swept) :
        swept[k].ret = SEGMENT_FREE =>
            /\ next_free[swept[k].seg] = 0
            /\ next_free_snap[swept[k].seg] = 0

C4_Witness ==
    /\ pc = "done"
    /\ \E k \in 1..Len(swept) :
          /\ swept[k].ret = SEGMENT_FREE
          /\ swept[k].seg \in Elems(FreeNow)
          /\ old.next_free[swept[k].seg] # 0

\* C5: the segments that are on an active list or on the free list when
\* nonmoving_sweep is called are still on that list after the pass, in the
\* same order, with bitmap, next_free, next_free_snap and link unchanged.
C5_UnsweptUnchanged ==
    pc = "done" =>
        /\ IsSuffix(FreeOld, FreeNow)
        /\ \A c \in Classes : IsSuffix(ActiveOld(c), ActiveNow(c))
        /\ \A s \in PreActive \cup PreFree :
              /\ link[s] = old.link[s]
              /\ bitmap[s] = old.bitmap[s]
              /\ next_free[s] = old.next_free[s]
              /\ next_free_snap[s] = old.next_free_snap[s]

C5_Witness ==
    /\ pc = "done"
    /\ \E c \in Classes :
          /\ old.active[c] # NULL
          /\ active[c] # old.active[c]
          /\ next_free_snap[old.active[c]] # next_free[old.active[c]]

\* C6: each segment popped from the sweep list is pushed onto the list its
\* classification selects and no other: SEGMENT_FREE the free list,
\* SEGMENT_PARTIAL the active list and SEGMENT_FILLED the filled list of the
\* allocator with index block_size - NONMOVING_ALLOCA0, which is the size
\* class it was drained from.
C6_Destination ==
    \A k \in Filed :
        LET s == swept[k].seg
            r == swept[k].ret
            c == block_size[s] - NONMOVING_ALLOCA0
        IN /\ s \in PreFilled => c = DrainedFrom(s)
           /\ TotalOcc(s) = 1
           /\ r = SEGMENT_FREE => s \in Elems(FreeNow)
           /\ r = SEGMENT_PARTIAL => s \in Elems(ActiveNow(c))
           /\ r = SEGMENT_FILLED => s \in Elems(FilledNow(c))

C6_Witness ==
    /\ pc = "loop"
    /\ \E k \in Filed :
          /\ swept[k].ret = SEGMENT_FILLED
          /\ swept[k].seg \in PreFilled
          /\ DrainedFrom(swept[k].seg) # 0
          /\ filled[DrainedFrom(swept[k].seg)] = swept[k].seg

\* C7: when nonmoving_sweep returns, the sweep list is empty.
C7_SweepListEmpty ==
    pc = "done" => sweep_list = NULL

C7_Witness ==
    /\ pc = "done"
    /\ sweep_list = NULL
    /\ \E c \in Classes : Len(FilledOld(c)) = NumSegs

\* the pass has not gone past the entry of prepare_sweep: it has not started
\* or has failed on the entry check, and the heap is as it was at the call
StoppedAtEntry ==
    /\ pc \in {"idle", "fatal"}
    /\ pc = "fatal" => failure = "sweep_list"
    /\ swept = <<>>
    /\ filled = old.filled
    /\ active = old.active
    /\ free = old.free
    /\ sweep_list = old.sweep_list
    /\ link = old.link
    /\ next_free = old.next_free
    /\ next_free_snap = old.next_free_snap

\* C8: when nonmoving_sweep is called with a non-empty sweep list it fails
\* at entry: no filled list is drained, no segment is classified and no list
\* head, link or cursor is modified.
C8_FatalAtEntry ==
    old.sweep_list # NULL => StoppedAtEntry

C8_Witness ==
    /\ pc = "fatal"
    /\ failure = "sweep_list"
    /\ sweep_list # NULL
    /\ \E c \in Classes : filled[c] # NULL

\* C9 as claimed: after nonmoving_sweep returns, every segment on an active
\* list, placed there by this pass or already there, has next_free_snap =
\* next_free and the mark bit of block next_free unset.
C9_Original ==
    pc = "done" =>
        \A c \in Classes : \A s \in Elems(ActiveNow(c)) :
            /\ next_free_snap[s] = next_free[s]
            /\ bitmap[s][next_free[s]] = 0

\* C9 as amended: after nonmoving_sweep returns, every segment this pass
\* placed on an active list has next_free_snap = next_free and the mark bit
\* of block next_free unset; the segments that were on an active list
\* before the pass keep the cursors they had.
C9_SweptActiveConsistent ==
    pc = "done" =>
        /\ \A k \in 1..Len(swept) :
              swept[k].ret = SEGMENT_PARTIAL =>
                  LET s == swept[k].seg
                  IN /\ s \in Elems(ActiveNow(AllocOf(s)))
                     /\ next_free_snap[s] = next_free[s]
                     /\ bitmap[s][next_free[s]] = 0
        /\ \A s \in PreActive :
              /\ next_free[s] = old.next_free[s]
              /\ next_free_snap[s] = old.next_free_snap[s]

C9_Witness ==
    /\ pc = "done"
    /\ \E c \in Classes :
          /\ Len(ActiveNow(c)) = 2
          /\ ActiveNow(c)[1] \in PreFilled
          /\ ActiveNow(c)[2] \in PreActive
          /\ old.next_free[ActiveNow(c)[1]] # next_free[ActiveNow(c)[1]]
          /\ next_free_snap[ActiveNow(c)[2]] # next_free[ActiveNow(c)[2]]

\* C10 as claimed: classifying a segment whose mark bits are all unset does
\* not write its cursors, so a segment is classified SEGMENT_FREE only when
\* both cursors were 0 before the pass; otherwise the pass fails.
C10_Original ==
    \A k \in 1..Len(swept) :
        swept[k].ret = SEGMENT_FREE =>
            /\ old.next_free[swept[k].seg] = 0
            /\ old.next_free_snap[swept[k].seg] = 0

\* C10 as amended: classifying a segment whose mark bits are all unset sets
\* next_free and next_free_snap to 0 at block 0, so the zero-cursor checks
\* that follow hold whatever the cursors were before the pass: the pass does
\* not fail on them and the segment is classified SEGMENT_FREE.
C10_FreeResetsCursors ==
    /\ failure # "next_free"
    /\ (pc \in {"push", "loop", "done"} /\ seg # NULL
            /\ NoBitSet(old.bitmap[seg])) =>
          /\ swept[Len(swept)] = [seg |-> seg, ret |-> SEGMENT_FREE]
          /\ next_free[seg] = 0
          /\ next_free_snap[seg] = 0

C10_Witness ==
    /\ pc = "push"
    /\ ret = SEGMENT_FREE
    /\ NoBitSet(old.bitmap[seg])
    /\ old.next_free[seg] # 0
    /\ old.next_free_snap[seg] # 0
    /\ next_free[seg] = 0

\* C11: in every state of a sweep pass, also while prepare_sweep drains the
\* filled lists and between a pop from the sweep list and the push that
\* follows, no segment is reachable from more than one list head and no
\* list holds a segment twice.
C11_OneListAtMost ==
    LET all == AllListed
    IN \A s \in Segs : Occ(all, s) <= 1

C11_Witness ==
    /\ pc = "push"
    /\ seg # NULL
    /\ TotalOcc(seg) = 0
    /\ sweep_list # NULL

\* the concatenation of the old filled lists of the classes c, c-1, ..., 0
RECURSIVE StagedUpTo(_)
StagedUpTo(c) ==
    IF c < 0 THEN <<>> ELSE FilledOld(c) \o StagedUpTo(c - 1)

PrepareDone == pc = "prepare" /\ alloc_idx = NONMOVING_ALLOCA_CNT

\* what prepare_sweep has put in front of the sweep list of the call
Staged == SubSeq(SweepNow, 1, Len(SweepNow) - Len(SweepOld))

C13_FilledKeepsCursors ==
    \A k \in 1..Len(swept) :
        swept[k].ret = SEGMENT_FILLED =>
            /\ next_free[swept[k].seg] = old.next_free[swept[k].seg]
            /\ next_free_snap[swept[k].seg] = old.next_free_snap[swept[k].seg]

C13_Witness ==
    /\ pc = "push"
    /\ ret = SEGMENT_FILLED
    /\ EveryBitSet(bitmap[seg])
    /\ next_free[seg] # 0
    /\ next_free_snap[seg] # 0

\* each drained segment is classified at most once, and all of them have
\* been classified when the pass has returned
ClassifiedOnce ==
    /\ \A j, k \in 1..Len(swept) : swept[j].seg = swept[k].seg => j = k
    /\ \A k \in 1..Len(swept) : swept[k].seg \in PreFilled \cup PreSweep
    /\ pc = "done" => Len(swept) = Cardinality(PreFilled \cup PreSweep)

\* the segments that still wait to be classified: those on filled lists
\* prepare_sweep has not taken yet, on the list it has taken but not linked,
\* and on the sweep list
Pending ==
    Len(SweepNow)
    + (IF pc = "link" THEN Len(ListOf(filled_head, link)) ELSE 0)
    + Cardinality({s \in Segs : \E c \in Classes :
                      /\ s \in Elems(FilledNow(c))
                      /\ \/ pc = "idle"
                         \/ pc = "prepare" /\ c >= alloc_idx
                         \/ pc = "link" /\ c > alloc_idx})

\* an upper bound of the number of steps the pass has still to take
StepsLeft ==
    CASE pc = "idle" -> 3 * Pending + 2 * NONMOVING_ALLOCA_CNT + 2
      [] pc = "prepare" -> 3 * Pending + 2 * (NONMOVING_ALLOCA_CNT - alloc_idx) + 1
      [] pc = "link" -> 3 * Pending + 2 * (NONMOVING_ALLOCA_CNT - alloc_idx)
      [] pc = "classify" -> 3 * Pending + 3
      [] pc = "push" -> 3 * Pending + 2
      [] pc = "loop" -> 3 * Pending + 1
      [] OTHER -> 0

\* C14: nonmoving_sweep terminates: while it has not returned (or failed) it
\* can take a step, and every step lowers a bound on the steps left that
\* depends only on the segments of the filled and sweep lists; and each
\* segment drained from a filled list is classified exactly once, a segment
\* pushed back on a filled list is not staged or classified again.
C14_TerminatesOnce ==
    /\ []ClassifiedOnce
    /\ [](pc \notin {"done", "fatal"} => ENABLED Next)
    /\ [][StepsLeft' < StepsLeft]_vars

C14_Witness ==
    /\ pc = "done"
    /\ Len(swept) = NumSegs
    /\ \E k \in 1..Len(swept) :
          /\ swept[k].ret = SEGMENT_FILLED
          /\ swept[k].seg \in Elems(FilledNow(AllocOf(swept[k].seg)))

\* the segments filed so far with result r (and, for c # -1, of allocator c),
\* the last one filed first
RECURSIVE FiledRev(_, _, _)
FiledRev(r, c, k) ==
    IF k = 0 THEN <<>>
    ELSE IF /\ k \in Filed
            /\ swept[k].ret = r
            /\ (c = -1 \/ AllocOf(swept[k].seg) = c)
         THEN <<swept[k].seg>> \o FiledRev(r, c, k - 1)
         ELSE FiledRev(r, c, k - 1)

\* prepare_sweep has taken the filled list of allocator c
Taken(c) ==
    \/ pc \in {"classify", "push", "loop", "done"}
    \/ pc = "prepare" /\ alloc_idx > c
    \/ pc = "link" /\ alloc_idx >= c

\* C15: every push is a push to the front: the pushed segment becomes the
\* head, its link the previous head, the rest of the list stays.  So in
\* every state each list is the segments filed on it by this pass, the last
\* one pushed first, followed by the members it had before the pass (none
\* for a filled list, which prepare_sweep emptied).
C15_PushFront ==
    /\ FreeNow = FiledRev(SEGMENT_FREE, -1, Len(swept)) \o FreeOld
    /\ \A c \in Classes :
          /\ ActiveNow(c) = FiledRev(SEGMENT_PARTIAL, c, Len(swept)) \o ActiveOld(c)
          /\ FilledNow(c) =
                IF Taken(c) THEN FiledRev(SEGMENT_FILLED, c, Len(swept))
                ELSE FilledOld(c)

C15_Witness ==
    /\ pc = "done"
    /\ Len(swept) >= 2
    /\ swept[1].ret = SEGMENT_FILLED
    /\ swept[2].ret = SEGMENT_FILLED
    /\ FilledNow(AllocOf(swept[1].seg)) = <<swept[2].seg, swept[1].seg>>

\* C16: called with an empty sweep list and every filled list empty,
\* nonmoving_sweep returns without a fatal failure and leaves the free
\* list, the sweep list, the active and the filled lists and every
\* segment's cursors and link as they were.
C16_EmptyPass ==
    (old.sweep_list = NULL /\ \A c \in Classes : old.filled[c] = NULL) =>
        /\ pc \in {"idle", "prepare", "done"}
        /\ failure = "none"
        /\ free = old.free
        /\ sweep_list = old.sweep_list
        /\ active = old.active
        /\ filled = old.filled
        /\ link = old.link
        /\ next_free = old.next_free
        /\ next_free_snap = old.next_free_snap

C16_Witness ==
    /\ pc = "done"
    /\ swept = <<>>
    /\ old.sweep_list = NULL
    /\ \A c \in Classes : old.filled[c] = NULL
    /\ free # NULL
    /\ \E c \in Classes : active[c] # NULL

\* C17: with sanity scrubbing on, after the pass every segment classified
\* SEGMENT_PARTIAL has the payload of each block whose mark bit is unset
\* zeroed, the payload of each block whose mark bit is set as it was, and
\* its bitmap as it was.
C17_Scrubbed ==
    (sanity /\ pc = "done") =>
        \A k \in 1..Len(swept) :
            swept[k].ret = SEGMENT_PARTIAL =>
                LET s == swept[k].seg
                IN /\ bitmap[s] = old.bitmap[s]
                   /\ \A i \in BlockIdx :
                         /\ bitmap[s][i] = 0 => payload[s][i] = 0
                         /\ bitmap[s][i] # 0 => payload[s][i] = old.payload[s][i]

C17_Witness ==
    /\ sanity
    /\ pc = "done"
    /\ \E k \in 1..Len(swept) :
          /\ swept[k].ret = SEGMENT_PARTIAL
          /\ \E i, j \in BlockIdx :
                /\ payload[swept[k].seg][i] = 0
                /\ old.payload[swept[k].seg][i] # 0
                /\ payload[swept[k].seg][j] # 0

\* C18: in a pass started with an empty sweep list no fatal failure is
\* reachable, whatever the bitmaps and the cursors of the segments: the
\* classification is one of the three defined values and the zero-cursor
\* checks of the SEGMENT_FREE path hold.
C18_NoFatal ==
    old.sweep_list = NULL =>
        /\ pc # "fatal"
        /\ failure = "none"
        /\ pc = "push" => ret \in {SEGMENT_FREE, SEGMENT_PARTIAL, SEGMENT_FILLED}
        /\ \A k \in 1..Len(swept) :
              swept[k].ret \in {SEGMENT_FREE, SEGMENT_PARTIAL, SEGMENT_FILLED}

C18_Witness ==
    /\ pc = "done"
    /\ old.sweep_list = NULL
    /\ Len(swept) = NumSegs
    /\ \A k \in 1..Len(swept) :
          /\ swept[k].ret = SEGMENT_FREE
          /\ old.next_free[swept[k].seg] # 0

\* the segments this pass has added to an active list
AddedActive == (UNION {Elems(ActiveNow(c)) : c \in Classes}) \ PreActive

\* C19: after nonmoving_sweep returns, every segment on a filled list has
\* every mark bit set, whatever the bitmaps of the filled segments were
\* before the pass, and every segment the pass added to an active list has
\* a set and an unset mark bit.
C19_ListsMatchBitmaps ==
    pc = "done" =>
        /\ \A c \in Classes : \A s \in Elems(FilledNow(c)) :
              EveryBitSet(bitmap[s])
        /\ \A s \in AddedActive :
              ~EveryBitSet(bitmap[s]) /\ ~NoBitSet(bitmap[s])

C19_Witness ==
    /\ pc = "done"
    /\ \E c \in Classes : filled[c] # NULL
    /\ \E s \in PreFilled : ~EveryBitSet(old.bitmap[s])

\* C20: when nonmoving_sweep is run a second time right after a first run,
\* no bitmap having changed in between, the second run returns with the
\* same segments on the free list, on each active list and on each filled
\* list as after the first run, and with every segment's next_free and
\* next_free_snap as after the first run.
C20_Idempotent ==
    runs = 2 =>
        /\ pc # "fatal"
        /\ pc = "done" =>
              /\ Elems(FreeNow) = Elems(FreeOld)
              /\ \A c \in Classes :
                    /\ Elems(ActiveNow(c)) = Elems(ActiveOld(c))
                    /\ Elems(FilledNow(c)) = Elems(FilledOld(c))
              /\ next_free = old.next_free
              /\ next_free_snap = old.next_free_snap

C20_Witness ==
    /\ runs = 2
    /\ pc = "done"
    /\ \E c \in Classes :
          /\ Len(FilledNow(c)) >= 2
          /\ FilledNow(c) # FilledOld(c)
          /\ \E s \in Elems(FilledNow(c)) : next_free[s] # 0

====
